---------------------------- MODULE Spec2Model ----------------------------
(***************************************************************************)
(* Model of backend/app.py: the /api/find-optimal-locations request        *)
(* handler, OptimalLocationFinder.__init__ (zone partition),               *)
(* OptimalLocationFinder.find_optimal_locations (rank extraction) and      *)
(* OptimalLocationFinder.find_connected_regions (flood-fill clustering).   *)
(*                                                                         *)
(* Coordinates are fixed-point integers: one unit is 0.00005 degree, so    *)
(* 0.001 degree is 20 units and the default spacing 0.0005 degree is 10    *)
(* units.  Input coordinates are even numbers of units, which keeps every  *)
(* median of two differences integral, and the input domains are chosen so *)
(* that no rounded value lies exactly halfway between two grid keys and no *)
(* inferred spacing lies within rounding noise of a power of ten other     *)
(* than on key-aligned cells; on these domains the fixed-point arithmetic  *)
(* agrees with the float arithmetic of the code.  Costs are integers.      *)
(* Cells are well-formed records; the density fields, the bounds, the      *)
(* centroid and the averages of a sub-location are not modelled.           *)
(***************************************************************************)
EXTENDS Integers, Sequences, FiniteSets, TLC

VARIABLES
    cells,              \* request body "cells"
    n,                  \* request body "n"
    min_distance_km,    \* request body "minDistanceKm", kept as self.min_distance_km
    pc,                 \* position of the handler
    polygon_cells,      \* self.polygon_cells
    green_cells,        \* self.green_cells
    yellow_cells,       \* self.yellow_cells
    red_cells,          \* self.red_cells
    optimal_ranks,      \* optimal_ranks
    used_cell_keys,     \* used_cell_keys
    zone_idx,           \* position of "for zone_name, zone_cells in zones"
    zone_available,     \* zone_available
    min_cost_cells,     \* min_cost_cells of the latest inner iteration
    connected_regions,  \* connected_regions of the latest inner iteration
    response            \* what the handler returns

vars == <<cells, n, min_distance_km, pc, polygon_cells, green_cells, yellow_cells, red_cells,
          optimal_ranks, used_cell_keys, zone_idx, zone_available,
          min_cost_cells, connected_regions, response>>

---------------------------------------------------------------------------
(* Bounds of the model and the input domains *)

MaxCells == 3

MaxN == 3

\* one unit is 0.00005 degree
UnitsPerDegree == 2 * 10000

\* positions that carry every cost in a general request: two points of a
\* diagonal of step 0.0014 degree
Positions == {<<0, 0>>, <<28, 28>>}

CostSet == {-40, -33, 33, 34}

\* 3x3 grid of 0.001 degree spacing
GridStep == UnitsPerDegree \div 1000

GridCosts == {-40, 10, 50}

\* minDistanceKm values of a request, in tenths of a kilometre
DistanceSet == {0, 5, 20}

---------------------------------------------------------------------------
(* Constants of the program *)

GREEN_THRESHOLD == -33

YELLOW_THRESHOLD == 33

\* 0.0005 degree
DefaultSpacing == 10

\* range(min(10, len(sorted_cells) - 1))
SamplePairs == 10

\* data.get('minDistanceKm', 0.5), in tenths of a kilometre
DefaultMinDistance == 5

---------------------------------------------------------------------------
(* Generic helpers *)

Abs(x) == IF x < 0 THEN -x ELSE x

Min2(a, b) == IF a <= b THEN a ELSE b

RECURSIVE Pow10(_)
Pow10(k) == IF k <= 0 THEN 1 ELSE 10 * Pow10(k - 1)

\* (c['centerLat'], c['centerLng'])
CellKey(c) == <<c.centerLat, c.centerLng>>

\* tuple comparison of the sort key
KeyLeq(a, b) == \/ a.centerLat < b.centerLat
                \/ a.centerLat = b.centerLat /\ a.centerLng <= b.centerLng

\* insert c after every element that is not greater (stable)
RECURSIVE InsertSorted(_, _)
InsertSorted(s, c) ==
    IF s = <<>> THEN <<c>>
    ELSE IF KeyLeq(s[Len(s)], c) THEN Append(s, c)
    ELSE Append(InsertSorted(SubSeq(s, 1, Len(s) - 1), c), s[Len(s)])

\* sorted(cells, key=lambda c: (c['centerLat'], c['centerLng']))
RECURSIVE SortedCells(_)
SortedCells(s) ==
    IF s = <<>> THEN <<>>
    ELSE InsertSorted(SortedCells(SubSeq(s, 1, Len(s) - 1)), s[Len(s)])

\* insert a number into an ascending sequence
RECURSIVE InsertNum(_, _)
InsertNum(s, x) ==
    IF s = <<>> THEN <<x>>
    ELSE IF s[Len(s)] <= x THEN Append(s, x)
    ELSE Append(InsertNum(SubSeq(s, 1, Len(s) - 1), x), s[Len(s)])

RECURSIVE SortNums(_)
SortNums(s) ==
    IF s = <<>> THEN <<>>
    ELSE InsertNum(SortNums(SubSeq(s, 1, Len(s) - 1)), s[Len(s)])

\* np.median: the middle element, or the mean of the two middle elements
Median(s) ==
    LET t == SortNums(s)
        m == Len(t)
    IN  IF m % 2 = 1 THEN t[(m + 1) \div 2]
        ELSE (t[m \div 2] + t[m \div 2 + 1]) \div 2

---------------------------------------------------------------------------
(* find_connected_regions *)

\* the positive latitude differences of the first consecutive sorted pairs
LatDiffs(sc) ==
    LET cnt == Min2(SamplePairs, Len(sc) - 1)
        d(i) == Abs(sc[i + 1].centerLat - sc[i].centerLat)
    IN  SelectSeq([i \in 1..cnt |-> d(i)], LAMBDA x : x > 0)

LngDiffs(sc) ==
    LET cnt == Min2(SamplePairs, Len(sc) - 1)
        d(i) == Abs(sc[i + 1].centerLng - sc[i].centerLng)
    IN  SelectSeq([i \in 1..cnt |-> d(i)], LAMBDA x : x > 0)

\* grid_spacing
GridSpacing(cs) ==
    IF Len(cs) >= 2
    THEN LET sc == SortedCells(cs)
             la == LatDiffs(sc)
             ln == LngDiffs(sc)
         IN  Min2(IF la # <<>> THEN Median(la) ELSE DefaultSpacing,
                  IF ln # <<>> THEN Median(ln) ELSE DefaultSpacing)
    ELSE DefaultSpacing

\* the largest k >= 0 with s * 10^k <= UnitsPerDegree, searched upwards from k
RECURSIVE DecadesBelow(_, _)
DecadesBelow(s, k) ==
    IF s * Pow10(k + 1) <= UnitsPerDegree THEN DecadesBelow(s, k + 1) ELSE k

\* the largest j >= 0 with UnitsPerDegree * 10^j <= s, searched upwards from j
RECURSIVE DecadesAbove(_, _)
DecadesAbove(s, j) ==
    IF UnitsPerDegree * Pow10(j + 1) <= s THEN DecadesAbove(s, j + 1) ELSE j

\* int(-math.log10(grid_spacing)) + 1; int() truncates towards zero
Precision(s) ==
    IF s <= UnitsPerDegree THEN DecadesBelow(s, 0) + 1
    ELSE 1 - DecadesAbove(s, 0)

\* round half to even of v to a multiple of u
RoundTo(v, u) ==
    LET q == v \div u
        r == v % u
    IN  IF 2 * r < u THEN q * u
        ELSE IF 2 * r > u THEN (q + 1) * u
        ELSE IF q % 2 = 0 THEN q * u ELSE (q + 1) * u

\* round(x, precision) of a coordinate given in units; a multiple of
\* 0.00005 degree has at most five decimals
RoundCoord(v, p) ==
    IF p >= 5 THEN v
    ELSE IF p >= 0 THEN RoundTo(v, UnitsPerDegree \div Pow10(p))
    ELSE RoundTo(v, UnitsPerDegree * Pow10(-p))

\* grid_key(lat, lng)
GridKey(lat, lng, p) == <<RoundCoord(lat, p), RoundCoord(lng, p)>>

\* cell_map: the last cell written under each key
CellMap(cs, p) ==
    LET keyOf(i) == GridKey(cs[i].centerLat, cs[i].centerLng, p)
        keys == {keyOf(i) : i \in 1..Len(cs)}
        last(k) == CHOOSE i \in 1..Len(cs) :
                       /\ keyOf(i) = k
                       /\ \A j \in 1..Len(cs) : keyOf(j) = k => j <= i
    IN  [k \in keys |-> cs[last(k)]]

\* neighbor_offsets
NeighborOffsets(s) ==
    << <<-s, 0>>, <<s, 0>>, <<0, -s>>, <<0, s>>,
       <<-s, -s>>, <<-s, s>>, <<s, -s>>, <<s, s>> >>

\* the neighbour keys pushed for current_key, in offset order
PushedNeighbors(key, s, p, cmap, visited) ==
    LET offs == NeighborOffsets(s)
        nk(i) == GridKey(key[1] + offs[i][1], key[2] + offs[i][2], p)
    IN  SelectSeq([i \in 1..Len(offs) |-> nk(i)],
                  LAMBDA k : k \in DOMAIN cmap /\ k \notin visited)

\* the "while stack" loop
RECURSIVE FloodFill(_, _, _, _, _, _)
FloodFill(stack, visited, region, s, p, cmap) ==
    IF stack = <<>> THEN [visited |-> visited, region |-> region]
    ELSE LET current_key == stack[Len(stack)]
             rest == SubSeq(stack, 1, Len(stack) - 1)
         IN  IF current_key \in visited
                 THEN FloodFill(rest, visited, region, s, p, cmap)
             ELSE IF current_key \notin DOMAIN cmap
                 THEN FloodFill(rest, visited, region, s, p, cmap)
             ELSE LET v2 == visited \cup {current_key}
                  IN  FloodFill(rest \o PushedNeighbors(current_key, s, p, cmap, v2),
                                v2, Append(region, cmap[current_key]), s, p, cmap)

\* the "for cell in cells" loop from index i on
RECURSIVE RegionsFrom(_, _, _, _, _, _, _)
RegionsFrom(cs, i, visited, regions, s, p, cmap) ==
    IF i > Len(cs) THEN regions
    ELSE LET start_key == GridKey(cs[i].centerLat, cs[i].centerLng, p)
         IN  IF start_key \in visited
                 THEN RegionsFrom(cs, i + 1, visited, regions, s, p, cmap)
             ELSE LET ff == FloodFill(<<start_key>>, visited, <<>>, s, p, cmap)
                  IN  RegionsFrom(cs, i + 1, ff.visited,
                                  IF ff.region # <<>> THEN Append(regions, ff.region)
                                  ELSE regions,
                                  s, p, cmap)

\* find_connected_regions(cells)
FindConnectedRegions(cs) ==
    IF cs = <<>> THEN <<>>
    ELSE LET s == GridSpacing(cs)
             p == Precision(s)
         IN  RegionsFrom(cs, 1, {}, <<>>, s, p, CellMap(cs, p))

---------------------------------------------------------------------------
(* OptimalLocationFinder.__init__ *)

\* the inPolygon filter forgotten
PolygonCells_NoFilter(cs) == cs

\* self.polygon_cells
PolygonCells(cs) == SelectSeq(cs, LAMBDA c : c.inPolygon)

\* the thresholds compared with < instead of <=
ZoneOfCost_Strict(cost) ==
    IF cost < GREEN_THRESHOLD THEN "GREEN"
    ELSE IF cost < YELLOW_THRESHOLD THEN "YELLOW"
    ELSE "RED"

\* the branch of the partition loop a cost takes
ZoneOfCost(cost) ==
    IF cost <= GREEN_THRESHOLD THEN "GREEN"
    ELSE IF cost <= YELLOW_THRESHOLD THEN "YELLOW"
    ELSE "RED"

\* the partition loop run over self.cells instead of self.polygon_cells
ZonePool_AllCells(cs, zone) == SelectSeq(cs, LAMBDA c : ZoneOfCost(c.cost) = zone)

\* the pool the partition loop fills for one zone
ZonePool(cs, zone) == SelectSeq(PolygonCells(cs), LAMBDA c : ZoneOfCost(c.cost) = zone)

---------------------------------------------------------------------------
(* OptimalLocationFinder.find_optimal_locations *)

\* zones = [GREEN, YELLOW, RED]: the names
ZoneName(i) == <<"GREEN", "YELLOW", "RED">>[i]

\* zones = [GREEN, YELLOW, RED]: the pools
ZoneCells(i) == <<green_cells, yellow_cells, red_cells>>[i]

\* the used-cell filter forgotten
Available_NoUsedFilter(zone_cells, used) == zone_cells

\* cells nearer than self.min_distance_km to a used cell dropped as well
\* (0.1 km is about 18 coordinate units)
Available_MinDistance(zone_cells, used) ==
    SelectSeq(zone_cells, LAMBDA c :
        /\ CellKey(c) \notin used
        /\ \A k \in used :
               Abs(c.centerLat - k[1]) + Abs(c.centerLng - k[2])
                   >= 18 * min_distance_km)

\* [c for c in zone_cells if (c['centerLat'], c['centerLng']) not in used_cell_keys]
Available(zone_cells, used) == SelectSeq(zone_cells, LAMBDA c : CellKey(c) \notin used)

\* max taken instead of min
MinCost_Max(avail) ==
    CHOOSE m \in {avail[i].cost : i \in 1..Len(avail)} :
        \A i \in 1..Len(avail) : m >= avail[i].cost

\* min(cell['cost'] for cell in zone_available)
MinCost(avail) ==
    CHOOSE m \in {avail[i].cost : i \in 1..Len(avail)} :
        \A i \in 1..Len(avail) : m <= avail[i].cost

\* cells up to the next cost taken with the minimum-cost cells
MinCostCells_UpToNext(avail) == SelectSeq(avail, LAMBDA c : c.cost <= MinCost(avail) + 7)

\* [cell for cell in zone_available if cell['cost'] == min_cost]
MinCostCells(avail) == SelectSeq(avail, LAMBDA c : c.cost = MinCost(avail))

\* one sub_location of a rank
SubLocation(i, region_cells) ==
    [subIndex  |-> i - 1,
     cellCount |-> Len(region_cells),
     cells     |-> [j \in 1..Len(region_cells) |->
                       [lat  |-> region_cells[j].centerLat,
                        lng  |-> region_cells[j].centerLng,
                        cost |-> region_cells[j].cost]]]

\* costRank numbered from 0
CostRank_ZeroBased(rank_num, min_cost, zone_name, mcc, regions) ==
    [costRank         |-> rank_num,
     cost             |-> min_cost,
     zone             |-> zone_name,
     subLocationCount |-> Len(regions),
     totalCellCount   |-> Len(mcc),
     subLocations     |-> [i \in 1..Len(regions) |-> SubLocation(i, regions[i])]]

\* the cost_rank object
CostRank(rank_num, min_cost, zone_name, mcc, regions) ==
    [costRank         |-> rank_num + 1,
     cost             |-> min_cost,
     zone             |-> zone_name,
     subLocationCount |-> Len(regions),
     totalCellCount   |-> Len(mcc),
     subLocations     |-> [i \in 1..Len(regions) |-> SubLocation(i, regions[i])]]

---------------------------------------------------------------------------
(* The request handler, step by step *)

NoResponse ==
    [status |-> 0, keys |-> {}, success |-> FALSE, error |-> "",
     locations |-> <<>>, cellsProcessed |-> 0, locationsFound |-> 0]

\* return jsonify({'error': msg}), 400
ErrorResponse(msg) ==
    [status |-> 400, keys |-> {"error"}, success |-> FALSE, error |-> msg,
     locations |-> <<>>, cellsProcessed |-> 0, locationsFound |-> 0]

\* the except branch: jsonify({'success': False, 'error': str(e)}), 500
ExceptionResponse(msg) ==
    [status |-> 500, keys |-> {"success", "error"}, success |-> FALSE, error |-> msg,
     locations |-> <<>>, cellsProcessed |-> 0, locationsFound |-> 0]

\* jsonify({'success': True, 'locations': ..., ...}) with the default status
SuccessResponse(locations, processed) ==
    [status |-> 200,
     keys |-> {"success", "locations", "executionTime", "cellsProcessed", "locationsFound"},
     success |-> TRUE, error |-> "",
     locations |-> locations, cellsProcessed |-> processed,
     locationsFound |-> Len(locations)]

\* the request body
requestVars == <<cells, n, min_distance_km>>

finderVars == <<polygon_cells, green_cells, yellow_cells, red_cells>>

loopVars == <<optimal_ranks, used_cell_keys, zone_idx, zone_available,
              min_cost_cells, connected_regions>>

\* if not cells: return 400
RejectEmpty ==
    /\ pc = "request"
    /\ cells = <<>>
    /\ response' = ErrorResponse("No cells provided")
    /\ pc' = "done"
    /\ UNCHANGED <<requestVars, finderVars, loopVars>>

\* if n <= 0: return 400
RejectNonPositive ==
    /\ pc = "request"
    /\ cells # <<>>
    /\ n <= 0
    /\ response' = ErrorResponse("Number of stations must be > 0")
    /\ pc' = "done"
    /\ UNCHANGED <<requestVars, finderVars, loopVars>>

\* the constructor raises ValueError, caught by the handler's except branch
ConstructFails ==
    /\ pc = "request"
    /\ cells # <<>>
    /\ n > 0
    /\ PolygonCells(cells) = <<>>
    /\ polygon_cells' = PolygonCells(cells)
    /\ green_cells' = ZonePool(cells, "GREEN")
    /\ yellow_cells' = ZonePool(cells, "YELLOW")
    /\ red_cells' = ZonePool(cells, "RED")
    /\ response' = ExceptionResponse("No cells found inside polygon")
    /\ pc' = "done"
    /\ UNCHANGED <<requestVars, loopVars>>

\* the constructor returns; find_optimal_locations starts its zone loop
Construct ==
    /\ pc = "request"
    /\ cells # <<>>
    /\ n > 0
    /\ PolygonCells(cells) # <<>>
    /\ polygon_cells' = PolygonCells(cells)
    /\ green_cells' = ZonePool(cells, "GREEN")
    /\ yellow_cells' = ZonePool(cells, "YELLOW")
    /\ red_cells' = ZonePool(cells, "RED")
    /\ optimal_ranks' = <<>>
    /\ used_cell_keys' = {}
    /\ zone_idx' = 1
    /\ pc' = "zones"
    /\ UNCHANGED <<requestVars, zone_available, min_cost_cells, connected_regions, response>>

\* the two "continue" branches of the zone loop
SkipZone ==
    /\ pc = "zones"
    /\ zone_idx \in 1..3
    /\ \/ Len(optimal_ranks) >= n
       \/ ZoneCells(zone_idx) = <<>>
    /\ zone_idx' = zone_idx + 1
    /\ UNCHANGED <<requestVars, pc, finderVars, optimal_ranks, used_cell_keys,
                   zone_available, min_cost_cells, connected_regions, response>>

\* zone_available is computed before the while loop
EnterZone ==
    /\ pc = "zones"
    /\ zone_idx \in 1..3
    /\ Len(optimal_ranks) < n
    /\ ZoneCells(zone_idx) # <<>>
    /\ zone_available' = Available(ZoneCells(zone_idx), used_cell_keys)
    /\ pc' = "inner"
    /\ UNCHANGED <<requestVars, finderVars, optimal_ranks, used_cell_keys, zone_idx,
                   min_cost_cells, connected_regions, response>>

\* the iteration with "used_cell_keys.add" left out
ExtractRank_NothingMarked ==
    /\ pc = "inner"
    /\ zone_available # <<>>
    /\ Len(optimal_ranks) < n
    /\ LET rank_num == Len(optimal_ranks)
           min_cost == MinCost(zone_available)
           mcc      == MinCostCells(zone_available)
           regions  == FindConnectedRegions(mcc)
       IN  /\ min_cost_cells' = mcc
           /\ connected_regions' = regions
           /\ optimal_ranks' = Append(optimal_ranks,
                  CostRank(rank_num, min_cost, ZoneName(zone_idx), mcc, regions))
           /\ zone_available' = Available(ZoneCells(zone_idx), used_cell_keys)
    /\ UNCHANGED <<requestVars, pc, finderVars, zone_idx, response, used_cell_keys>>

\* one iteration of "while zone_available and len(optimal_ranks) < n"
ExtractRank ==
    /\ pc = "inner"
    /\ zone_available # <<>>
    /\ Len(optimal_ranks) < n
    /\ LET rank_num == Len(optimal_ranks)
           min_cost == MinCost(zone_available)
           mcc      == MinCostCells(zone_available)
           used     == used_cell_keys \cup {CellKey(mcc[i]) : i \in 1..Len(mcc)}
           regions  == FindConnectedRegions(mcc)
       IN  /\ min_cost_cells' = mcc
           /\ used_cell_keys' = used
           /\ connected_regions' = regions
           /\ optimal_ranks' = Append(optimal_ranks,
                  CostRank(rank_num, min_cost, ZoneName(zone_idx), mcc, regions))
           /\ zone_available' = Available(ZoneCells(zone_idx), used)
    /\ UNCHANGED <<requestVars, pc, finderVars, zone_idx, response>>

\* the while condition is false: next zone
LeaveZone ==
    /\ pc = "inner"
    /\ ~(zone_available # <<>> /\ Len(optimal_ranks) < n)
    /\ zone_idx' = zone_idx + 1
    /\ pc' = "zones"
    /\ UNCHANGED <<requestVars, finderVars, optimal_ranks, used_cell_keys,
                   zone_available, min_cost_cells, connected_regions, response>>

\* find_optimal_locations returns and the handler answers
Respond ==
    /\ pc = "zones"
    /\ zone_idx = 4
    /\ response' = SuccessResponse(optimal_ranks, Len(polygon_cells))
    /\ pc' = "done"
    /\ UNCHANGED <<requestVars, finderVars, loopVars>>

Next ==
    \/ RejectEmpty
    \/ RejectNonPositive
    \/ ConstructFails
    \/ Construct
    \/ SkipZone
    \/ EnterZone
    \/ ExtractRank
    \/ LeaveZone
    \/ Respond

\* the state of the handler before it reads the request
InitLocals ==
    /\ pc = "request"
    /\ polygon_cells = <<>>
    /\ green_cells = <<>>
    /\ yellow_cells = <<>>
    /\ red_cells = <<>>
    /\ optimal_ranks = <<>>
    /\ used_cell_keys = {}
    /\ zone_idx = 0
    /\ zone_available = <<>>
    /\ min_cost_cells = <<>>
    /\ connected_regions = <<>>
    /\ response = NoResponse

Cell(lat, lng, cost, inp) ==
    [centerLat |-> lat, centerLng |-> lng, cost |-> cost, inPolygon |-> inp]

\* cells a general request may carry: the two diagonal points at every cost,
\* the third diagonal point at the lowest and the highest cost, a point
\* 0.0002 degree off the origin, and a cell outside the polygon
CellDomain ==
    {Cell(p[1], p[2], c, TRUE) : p \in Positions, c \in CostSet}
        \cup {Cell(56, 56, -40, TRUE), Cell(56, 56, 34, TRUE),
              Cell(4, 4, -40, TRUE), Cell(0, 0, -40, FALSE)}

\* a POST with up to MaxCells cells and n up to MaxN
Init ==
    /\ cells \in UNION {[1..k -> CellDomain] : k \in 0..MaxCells}
    /\ n \in 0..MaxN
    /\ min_distance_km = DefaultMinDistance
    /\ InitLocals

Spec == Init /\ [][Next]_vars

\* the 3x3 grid, row-major, one cost and one inPolygon flag per row
GridCells(costs, flags) ==
    [i \in 1..9 |->
        LET r == (i - 1) \div 3
            c == (i - 1) % 3
        IN  Cell(r * GridStep, c * GridStep, costs[r + 1], flags[r + 1])]

\* a POST with the 3x3 grid, or with no cell
InitGrid ==
    /\ cells \in {<<>>} \cup {GridCells(costs, flags) :
                       costs \in [1..3 -> GridCosts], flags \in [1..3 -> BOOLEAN]}
    /\ n \in 0..MaxN
    /\ min_distance_km = DefaultMinDistance
    /\ InitLocals

SpecGrid == InitGrid /\ [][Next]_vars

\* cells of a request with scattered cells: three green cells of one cost
\* of which (0, 0) and (0.0011, 0.0014) differ by unequal steps, one yellow
\* and one red cell further up the diagonal, and a cell outside the polygon
PairDomain ==
    {Cell(0, 0, -40, TRUE), Cell(0, 28, -40, TRUE), Cell(22, 28, -40, TRUE),
     Cell(28, 28, 33, TRUE), Cell(56, 56, 34, TRUE), Cell(0, 0, -40, FALSE)}

\* a POST with up to MaxCells scattered cells, n up to MaxN and a minDistanceKm
InitPairs ==
    /\ cells \in UNION {[1..k -> PairDomain] : k \in 0..MaxCells}
    /\ n \in 0..MaxN
    /\ min_distance_km \in DistanceSet
    /\ InitLocals

SpecPairs == InitPairs /\ [][Next]_vars

\* the while condition: the states in which ExtractRank can be taken
IterationEnabled == pc = "inner" /\ zone_available # <<>> /\ Len(optimal_ranks) < n

\* the steps other than a loop iteration
ControlSteps ==
    \/ RejectEmpty
    \/ RejectNonPositive
    \/ ConstructFails
    \/ Construct
    \/ SkipZone
    \/ EnterZone
    \/ LeaveZone
    \/ Respond

\* the handler is a sequential program: it runs on until it has answered.
\* Weak fairness of every step; for ExtractRank it is written out with the
\* while condition as its enabling condition.
FairSpecPairs ==
    /\ SpecPairs
    /\ WF_vars(ControlSteps)
    /\ ([]<>(~IterationEnabled) \/ []<><<ExtractRank>>_vars)

---------------------------------------------------------------------------
(* Vocabulary of the properties *)

\* the cells of every sub-location of a rank, in output order
RECURSIVE FlattenSubLocations(_)
FlattenSubLocations(subs) ==
    IF subs = <<>> THEN <<>>
    ELSE FlattenSubLocations(SubSeq(subs, 1, Len(subs) - 1)) \o subs[Len(subs)].cells

\* the cells of every rank of a rank list, in output order
RECURSIVE FlattenRanks(_)
FlattenRanks(ranks) ==
    IF ranks = <<>> THEN <<>>
    ELSE FlattenRanks(SubSeq(ranks, 1, Len(ranks) - 1))
             \o FlattenSubLocations(ranks[Len(ranks)].subLocations)

\* the cells of a list of regions, in order
RECURSIVE FlattenRegions(_)
FlattenRegions(regions) ==
    IF regions = <<>> THEN <<>>
    ELSE FlattenRegions(SubSeq(regions, 1, Len(regions) - 1)) \o regions[Len(regions)]

SeqToSet(s) == {s[i] : i \in 1..Len(s)}

Occurrences(x, s) == Cardinality({i \in 1..Len(s) : s[i] = x})

\* s and t hold the same elements, each the same number of times
SameBag(s, t) ==
    /\ Len(s) = Len(t)
    /\ \A x \in SeqToSet(s) \cup SeqToSet(t) : Occurrences(x, s) = Occurrences(x, t)

NoRepeat(s) == \A i, j \in 1..Len(s) : i # j => s[i] # s[j]

RECURSIVE SumCellCounts(_)
SumCellCounts(subs) ==
    IF subs = <<>> THEN 0
    ELSE SumCellCounts(SubSeq(subs, 1, Len(subs) - 1)) + subs[Len(subs)].cellCount

DistinctCosts(cs) == {cs[i].cost : i \in 1..Len(cs)}

DistinctCoordinates(cs) ==
    \A i, j \in 1..Len(cs) : i # j => CellKey(cs[i]) # CellKey(cs[j])

\* the request passes the three validity checks
ValidRequest == cells # <<>> /\ n > 0 /\ \E i \in 1..Len(cells) : cells[i].inPolygon

ZoneOrder(z) == IF z = "GREEN" THEN 1 ELSE IF z = "YELLOW" THEN 2 ELSE 3

---------------------------------------------------------------------------
(* C1 *)

ScenarioCells == GridCells(<<-40, 10, 50>>, <<TRUE, TRUE, TRUE>>)

RowOutput(r, cost) ==
    {[lat |-> r * GridStep, lng |-> c * GridStep, cost |-> cost] : c \in 0..2}

\* C1: for the 3x3 grid of 0.001-degree spacing with row costs -40, 10, 50
\* and n = 2 the answer has exactly two ranks; rank 1 has cost -40 and one
\* sub-location holding the three top-row cells, rank 2 has cost 10 and one
\* sub-location holding the three middle-row cells, and no cell of cost 50
\* is returned.
C1_GridScenario ==
    (pc = "done" /\ cells = ScenarioCells /\ n = 2) =>
        LET L == response.locations
        IN  /\ Len(L) = 2
            /\ L[1].cost = -40
            /\ Len(L[1].subLocations) = 1
            /\ Len(L[1].subLocations[1].cells) = 3
            /\ SeqToSet(L[1].subLocations[1].cells) = RowOutput(0, -40)
            /\ L[2].cost = 10
            /\ Len(L[2].subLocations) = 1
            /\ Len(L[2].subLocations[1].cells) = 3
            /\ SeqToSet(L[2].subLocations[1].cells) = RowOutput(1, 10)
            /\ \A c \in SeqToSet(FlattenRanks(L)) : c.cost # 50

---------------------------------------------------------------------------
(* C2 *)

\* C2: the regions of the latest clustering partition its input: every
\* min-cost cell is in exactly one region and none twice, and every rank's
\* totalCellCount is the sum of the cellCount of its sub-locations.
C2_RegionsPartitionInput ==
    /\ SameBag(FlattenRegions(connected_regions), min_cost_cells)
    /\ \A i \in 1..Len(optimal_ranks) :
           optimal_ranks[i].totalCellCount =
               SumCellCounts(optimal_ranks[i].subLocations)

---------------------------------------------------------------------------
(* C3 *)

\* one spacing step apart at most, in latitude and in longitude
WithinOneStep(a, b, s) ==
    /\ Abs(a.centerLat - b.centerLat) <= s
    /\ Abs(a.centerLng - b.centerLng) <= s

\* the indices reachable from the set R by chains of such pairs
RECURSIVE ChainClosure(_, _, _)
ChainClosure(R, cs, s) ==
    LET more == {j \in 1..Len(cs) : \E i \in R : WithinOneStep(cs[i], cs[j], s)}
    IN  IF more \subseteq R THEN R ELSE ChainClosure(R \cup more, cs, s)

InSameRegion(a, b, regions) ==
    \E r \in 1..Len(regions) :
        /\ \E k \in 1..Len(regions[r]) : CellKey(regions[r][k]) = CellKey(a)
        /\ \E k \in 1..Len(regions[r]) : CellKey(regions[r][k]) = CellKey(b)

\* C3: two cells given to the latest clustering are in the same region if
\* and only if a chain of input cells links them in which consecutive cells
\* are at most one inferred spacing step apart in latitude and in longitude.
C3_RegionsAreMaximal ==
    LET cs == min_cost_cells
        s  == GridSpacing(cs)
    IN  \A i, j \in 1..Len(cs) :
            InSameRegion(cs[i], cs[j], connected_regions)
                <=> j \in ChainClosure({i}, cs, s)

---------------------------------------------------------------------------
(* C4 *)

OutputKeys(ranks) ==
    LET f == FlattenRanks(ranks) IN [i \in 1..Len(f) |-> <<f[i].lat, f[i].lng>>]

\* C4: no cell is returned twice over all sub-locations of all ranks, and a
\* key once in the used-cell set stays in it while the extraction runs.
C4_NoCellTwice ==
    /\ [](NoRepeat(OutputKeys(optimal_ranks)) /\ NoRepeat(FlattenRanks(optimal_ranks)))
    /\ [][used_cell_keys \subseteq used_cell_keys']_vars

\* two ranks of one zone have been extracted from a request with three
\* in-polygon cells
C4_Witness ==
    /\ pc = "done"
    /\ Len(optimal_ranks) >= 2
    /\ optimal_ranks[1].zone = optimal_ranks[2].zone
    /\ Len(polygon_cells) = 3
    /\ Cardinality(used_cell_keys) >= 2

---------------------------------------------------------------------------
(* C5 *)

\* C5 as stated: a valid request is answered with success: true and with
\* min(n, D) ranks, D the number of distinct costs of the in-polygon cells.
C5_RankCountIsMinND ==
    (pc = "done" /\ ValidRequest) =>
        /\ response.status = 200
        /\ "success" \in response.keys /\ response.success
        /\ Len(response.locations) =
               Min2(n, Cardinality(DistinctCosts(PolygonCells(cells))))

\* C5 amended: a valid request is answered with success: true and with at
\* most min(n, D) ranks, and with exactly min(n, D) ranks when the
\* in-polygon cells have pairwise distinct coordinates.
C5_RankCountDistinctCoordinates ==
    (pc = "done" /\ ValidRequest) =>
        LET D == Cardinality(DistinctCosts(PolygonCells(cells)))
        IN  /\ response.status = 200
            /\ "success" \in response.keys /\ response.success
            /\ response.locationsFound = Len(response.locations)
            /\ Len(response.locations) >= 1
            /\ Len(response.locations) <= Min2(n, D)
            /\ DistinctCoordinates(PolygonCells(cells)) =>
                   Len(response.locations) = Min2(n, D)

\* fewer distinct costs than requested ranks, distinct coordinates: the
\* shorter list is a success
C5_Witness ==
    /\ pc = "done"
    /\ ValidRequest
    /\ DistinctCoordinates(PolygonCells(cells))
    /\ Cardinality(DistinctCosts(PolygonCells(cells))) = 2
    /\ n = 3
    /\ Len(response.locations) = 2
    /\ response.success

---------------------------------------------------------------------------
(* C6 *)

\* the costs of the cells of a zone pool whose key is not used
UnusedCosts(zone_cells, used) ==
    {zone_cells[i].cost : i \in {k \in 1..Len(zone_cells) : CellKey(zone_cells[k]) \notin used}}

\* C6: whenever a rank is appended, its cost is the least cost of the cells
\* of the current zone that were unused just before, and every cell listed
\* in a rank has the rank's cost.
C6_RankCostIsZoneMinimum ==
    /\ [][Len(optimal_ranks') = Len(optimal_ranks) + 1 =>
            LET r == optimal_ranks'[Len(optimal_ranks')]
                U == UnusedCosts(ZoneCells(zone_idx), used_cell_keys)
            IN  /\ r.cost \in U
                /\ \A c \in U : r.cost <= c]_vars
    /\ [](\A i \in 1..Len(optimal_ranks) :
              \A c \in SeqToSet(FlattenSubLocations(optimal_ranks[i].subLocations)) :
                  c.cost = optimal_ranks[i].cost)

\* a rank of two cells was taken while the zone still holds a dearer cell
C6_Witness ==
    /\ pc = "inner"
    /\ Len(optimal_ranks) = 1
    /\ optimal_ranks[1].totalCellCount = 2
    /\ Len(FlattenSubLocations(optimal_ranks[1].subLocations)) = 2
    /\ zone_available # <<>>

---------------------------------------------------------------------------
(* C7 *)

\* C7: along the rank list the zone never becomes more favourable, and the
\* zone of a rank is the one the thresholds give its cost: GREEN up to -33,
\* YELLOW above -33 up to 33, RED above 33.
C7_ZonesInOrder ==
    /\ \A i, j \in 1..Len(optimal_ranks) :
           i < j => ZoneOrder(optimal_ranks[i].zone) <= ZoneOrder(optimal_ranks[j].zone)
    /\ \A i \in 1..Len(optimal_ranks) :
           LET r == optimal_ranks[i]
           IN  /\ r.zone = "GREEN" <=> r.cost <= -33
               /\ r.zone = "YELLOW" <=> (r.cost > -33 /\ r.cost <= 33)
               /\ r.zone = "RED" <=> r.cost > 33

\* one rank of each zone, the first two at the threshold costs
C7_Witness ==
    /\ pc = "done"
    /\ Len(response.locations) = 3
    /\ response.locations[1].zone = "GREEN" /\ response.locations[1].cost = -33
    /\ response.locations[2].zone = "YELLOW" /\ response.locations[2].cost = 33
    /\ response.locations[3].zone = "RED"

---------------------------------------------------------------------------
(* C8 *)

\* C8: the ranks are numbered 1, 2, ..., k in list order and their costs
\* never decrease along the list.
C8_RanksNumberedCostsAscending ==
    /\ \A i \in 1..Len(optimal_ranks) : optimal_ranks[i].costRank = i
    /\ \A i, j \in 1..Len(optimal_ranks) :
           i < j => optimal_ranks[i].cost <= optimal_ranks[j].cost

\* three ranks, two of them from the same zone
C8_Witness ==
    /\ pc = "done"
    /\ Len(response.locations) = 3
    /\ response.locations[3].costRank = 3
    /\ response.locations[1].zone = response.locations[2].zone
    /\ response.locations[1].cost < response.locations[2].cost

---------------------------------------------------------------------------
(* C9 *)

\* C9: every failed request is answered with success: false, an error
\* message and a non-2xx status, and every other answer carries
\* success: true.
C9_FailuresCarrySuccessFalse ==
    pc = "done" =>
        IF ValidRequest
        THEN "success" \in response.keys /\ response.success
        ELSE /\ "success" \in response.keys /\ ~response.success
             /\ "error" \in response.keys /\ response.error # ""
             /\ response.status \notin 200..299

---------------------------------------------------------------------------
(* C10 *)

\* C10: for an empty cells list, a non-positive n and a list without
\* in-polygon cell no rank is ever produced and the used-cell set and the
\* zone loop are never touched, and each of the three conditions, and only
\* it, is answered with its own error message and a non-2xx status.
C10_RejectedBeforeExtraction ==
    /\ ~ValidRequest =>
           /\ optimal_ranks = <<>> /\ used_cell_keys = {}
           /\ zone_idx = 0 /\ zone_available = <<>>
           /\ pc \in {"request", "done"}
    /\ pc = "done" =>
           /\ ~ValidRequest =>
                  /\ response.locations = <<>>
                  /\ "error" \in response.keys
                  /\ response.status \notin 200..299
           /\ (cells = <<>>) <=> (response.error = "No cells provided")
           /\ (cells # <<>> /\ n <= 0)
                  <=> (response.error = "Number of stations must be > 0")
           /\ (cells # <<>> /\ n > 0 /\ ~ValidRequest)
                  <=> (response.error = "No cells found inside polygon")

\* a request whose cells are all outside the polygon has been answered
C10_Witness ==
    /\ pc = "done"
    /\ Len(cells) = 2
    /\ n > 0
    /\ ~ValidRequest
    /\ response.status = 500

---------------------------------------------------------------------------
(* C11 *)

\* the orderings of 1..m
Orderings(m) == {q \in [1..m -> 1..m] : \A i, j \in 1..m : i # j => q[i] # q[j]}

\* the regions as a set of sets of cells
PartitionOf(regions) == {SeqToSet(regions[i]) : i \in 1..Len(regions)}

\* C11: clustering any reordering of the cells given to the latest clustering
\* yields the same partition of the cells into regions.
C11_PermutationInvariant ==
    LET cs == min_cost_cells
    IN  \A q \in Orderings(Len(cs)) :
            PartitionOf(FindConnectedRegions([i \in 1..Len(cs) |-> cs[q[i]]]))
                = PartitionOf(connected_regions)

---------------------------------------------------------------------------
(* C12 *)

\* the least cost among the cells cs (cs not empty)
LeastCost(cs) ==
    CHOOSE c \in DistinctCosts(cs) : \A d \in DistinctCosts(cs) : c <= d

\* the cells of cs that have the least cost
CheapestCells(cs) == SelectSeq(cs, LAMBDA c : c.cost = LeastCost(cs))

\* exactly two in-polygon cells share the minimum cost and they are more
\* than one inferred spacing step apart in latitude or in longitude
TwoDisconnectedCheapest ==
    /\ polygon_cells # <<>>
    /\ Len(CheapestCells(polygon_cells)) = 2
    /\ LET pair == CheapestCells(polygon_cells)
       IN  ~WithinOneStep(pair[1], pair[2], GridSpacing(pair))

\* C12: when exactly two in-polygon cells share the minimum cost and are not
\* 8-neighbours, the first rank has subLocationCount = 2 and its two
\* sub-locations are singletons holding one of the two cells each.
C12_DisconnectedPairTwoSingletons ==
    (TwoDisconnectedCheapest /\ Len(optimal_ranks) >= 1) =>
        LET pair == CheapestCells(polygon_cells)
            subs == optimal_ranks[1].subLocations
        IN  /\ optimal_ranks[1].subLocationCount = 2
            /\ Len(subs) = 2
            /\ \A i \in 1..Len(subs) : subs[i].cellCount = 1 /\ Len(subs[i].cells) = 1
            /\ {<<subs[i].cells[1].lat, subs[i].cells[1].lng>> : i \in 1..Len(subs)}
                   = {CellKey(pair[1]), CellKey(pair[2])}

---------------------------------------------------------------------------
(* C13 *)

\* the constructor has run
Constructed == pc # "request" /\ response.status # 400

\* the number of cells of the request inside the polygon
InPolygonCount == Cardinality({i \in 1..Len(cells) : cells[i].inPolygon})

\* C13: after the constructor every in-polygon cell is in exactly one pool,
\* Green when cost <= -33, Yellow when -33 < cost <= 33, Red otherwise; cells
\* outside the polygon are in no pool; the three pool sizes add up to the
\* number of in-polygon cells.
C13_PartitionCompleteDisjoint ==
    Constructed =>
        LET pools == green_cells \o yellow_cells \o red_cells
        IN  /\ \A i \in 1..Len(green_cells) : green_cells[i].cost <= -33
            /\ \A i \in 1..Len(yellow_cells) :
                   -33 < yellow_cells[i].cost /\ yellow_cells[i].cost <= 33
            /\ \A i \in 1..Len(red_cells) : red_cells[i].cost > 33
            /\ \A c \in SeqToSet(cells) \cup SeqToSet(pools) :
                   Occurrences(c, pools) =
                       IF c.inPolygon THEN Occurrences(c, cells) ELSE 0
            /\ SeqToSet(green_cells) \cap SeqToSet(yellow_cells) = {}
            /\ SeqToSet(green_cells) \cap SeqToSet(red_cells) = {}
            /\ SeqToSet(yellow_cells) \cap SeqToSet(red_cells) = {}
            /\ Len(green_cells) + Len(yellow_cells) + Len(red_cells) = InPolygonCount

\* a request with a cell at each threshold and a cell outside the polygon
C13_Witness ==
    /\ Constructed
    /\ \E i \in 1..Len(green_cells) : green_cells[i].cost = -33
    /\ \E i \in 1..Len(yellow_cells) : yellow_cells[i].cost = 33
    /\ \E i \in 1..Len(cells) : ~cells[i].inPolygon

---------------------------------------------------------------------------
(* C14 *)

\* the rank list find_optimal_locations builds, as a function of the cells
\* and n alone: zone z onwards, given the ranks and used keys so far
RECURSIVE RanksFrom(_, _, _, _, _)
RanksFrom(cs, k, z, ranks, used) ==
    IF z > 3 THEN ranks
    ELSE LET pool  == ZonePool(cs, ZoneName(z))
             avail == SelectSeq(pool, LAMBDA c : CellKey(c) \notin used)
         IN  IF Len(ranks) >= k \/ avail = <<>>
             THEN RanksFrom(cs, k, z + 1, ranks, used)
             ELSE LET mcc == MinCostCells(avail)
                  IN  RanksFrom(cs, k, z,
                          Append(ranks, CostRank(Len(ranks), MinCost(avail),
                                     ZoneName(z), mcc, FindConnectedRegions(mcc))),
                          used \cup SeqToSet([i \in 1..Len(mcc) |-> CellKey(mcc[i])]))

RanksOf(cs, k) == RanksFrom(cs, k, 1, <<>>, {})

---------------------------------------------------------------------------
(* C15 *)

\* the ranks taken from the Green and Yellow zones
EarlyRanks == {i \in 1..Len(optimal_ranks) : optimal_ranks[i].zone # "RED"}

\* a step is an inner-loop iteration exactly when it changes the ranks or the
\* used keys; an iteration starts below n ranks, appends exactly one rank and
\* marks a key of the current zone that was not used before
IterationStep ==
    /\ (pc = "inner" /\ pc' = "inner")
           <=> (optimal_ranks' # optimal_ranks \/ used_cell_keys' # used_cell_keys)
    /\ (pc = "inner" /\ pc' = "inner") =>
           /\ Len(optimal_ranks) < n
           /\ optimal_ranks' = Append(optimal_ranks, optimal_ranks'[Len(optimal_ranks')])
           /\ used_cell_keys \subseteq used_cell_keys'
           /\ \E i \in 1..Len(ZoneCells(zone_idx)) :
                  /\ CellKey(ZoneCells(zone_idx)[i]) \notin used_cell_keys
                  /\ CellKey(ZoneCells(zone_idx)[i]) \in used_cell_keys'

\* at most n ranks, at most three zone visits, and the Red zone is entered
\* and supplies a rank only while Green and Yellow have supplied fewer than n
IterationBounds ==
    /\ Len(optimal_ranks) <= n
    /\ zone_idx \in 0..4
    /\ (pc = "inner" /\ zone_idx = 3) => Cardinality(EarlyRanks) < n
    /\ (EarlyRanks # 1..Len(optimal_ranks)) => Cardinality(EarlyRanks) < n

\* C15: the procedure terminates; every inner iteration marks at least one
\* previously unused cell of the current zone and appends exactly one rank,
\* so there are at most n iterations over at most three zones; with n ranks
\* no further cell is marked, and the Red zone is not touched when Green and
\* Yellow supply n ranks.
C15_Terminates ==
    /\ <>(pc = "done")
    /\ []IterationBounds
    /\ [][IterationStep]_vars

\* Green and Yellow supplied all n >= 2 ranks and the Red pool was left alone
C15_Witness ==
    /\ pc = "done"
    /\ response.status = 200
    /\ n >= 2
    /\ Len(optimal_ranks) = n
    /\ EarlyRanks = 1..n
    /\ red_cells # <<>>
    /\ \A i \in 1..Len(red_cells) : CellKey(red_cells[i]) \notin used_cell_keys

---------------------------------------------------------------------------
(* C16 *)

\* the k-th smallest element of the set of numbers S
KthSmallest(S, k) == CHOOSE c \in S : Cardinality({d \in S : d < c}) = k - 1

\* the cells a rank carries in its sub-locations
RankCells(rank) == SeqToSet(FlattenSubLocations(rank.subLocations))

\* the in-polygon cells of the request with the given cost, as output cells
PolygonCellsOfCost(cost) ==
    {[lat |-> polygon_cells[i].centerLat, lng |-> polygon_cells[i].centerLng,
      cost |-> polygon_cells[i].cost] :
         i \in {j \in 1..Len(polygon_cells) : polygon_cells[j].cost = cost}}

\* C16: when the in-polygon cells have pairwise distinct coordinates, the
\* k-th rank has the k-th smallest distinct cost among all in-polygon cells
\* and contains every in-polygon cell with that cost.
C16_NoCostSkippedRankComplete ==
    (Constructed /\ DistinctCoordinates(polygon_cells)) =>
        \A k \in 1..Len(optimal_ranks) :
            /\ optimal_ranks[k].cost = KthSmallest(DistinctCosts(polygon_cells), k)
            /\ PolygonCellsOfCost(optimal_ranks[k].cost) \subseteq RankCells(optimal_ranks[k])

\* the first half of C16 alone: no cost value is skipped
C16_CostPartOnly ==
    (Constructed /\ DistinctCoordinates(polygon_cells)) =>
        \A k \in 1..Len(optimal_ranks) :
            optimal_ranks[k].cost = KthSmallest(DistinctCosts(polygon_cells), k)

=============================================================================
